---- MODULE Spec2Model ----
(***************************************************************************)
(* rebabel-format: the CoNLL-U reader (ConnluReader.process_line), the     *)
(* CoNLL-U writer (ConlluWriter.write) and the batch importer              *)
(* (Importer.run).                                                         *)
(*                                                                         *)
(* A Python str is a sequence of one-character strings, so that strip,     *)
(* split, isdigit, int, str and sorted are computed and not assumed.       *)
(* The LineReader / Reader base classes and the unit store are not part of *)
(* the sources; they are modelled from the specification's text.           *)
(***************************************************************************)
EXTENDS Naturals, Sequences, FiniteSets, TLC

VARIABLES
    phase,        \* Importer.run: "loop", "reading", "done", "aborted"; then "written"
    fileIdx,      \* position in infiles of the file being read (0 before the first)
    log,          \* self.logger: sequence of [level, file]
    attempted,    \* history: the files reader.read was called on, in call order
    profile,      \* which pool of input lines the files are drawn from
    nread,        \* number of lines delivered so far (bounds the run)
    sid,          \* store id of the sentence node of the current block
    block_count,  \* LineReader.block_count
    id_seq,       \* LineReader.id_seq: node names declared in the current block
    word_idx,     \* ConnluReader.word_idx
    token_idx,    \* ConnluReader.token_idx
    edep_count,   \* ConnluReader.edep_count
    types,        \* store: node -> type
    parents,      \* store: node -> parent node
    feats,        \* store: <<node, tier, name>> -> [typ, val]
    relations,    \* store: sequence of <<from node, to node>>
    last,         \* history: the last line delivered and what it did
    input,        \* history: sentence id -> the lines delivered to its block
    out           \* ConlluWriter.write: the lines written to fout

vars == <<phase, fileIdx, log, attempted, profile, nread, sid, block_count,
          id_seq, word_idx, token_idx, edep_count, types, parents, feats,
          relations, last, input, out>>

----------------------------------------------------------------------------
(* Python str operations *)

TAB == "\t"

Digits == <<"0", "1", "2", "3", "4", "5", "6", "7", "8", "9">>

\* the characters in code-point order, for the comparison of str
Ascii == <<"\t", "\n", "\f", "\r", " ", "#", "-", ".",
           "0", "1", "2", "3", "4", "5", "6", "7", "8", "9", ":", "=",
           "A", "B", "C", "D", "E", "F", "G", "H", "I", "J", "K", "L", "M",
           "N", "O", "P", "Q", "R", "S", "T", "U", "V", "W", "X", "Y", "Z", "_",
           "a", "b", "c", "d", "e", "f", "g", "h", "i", "j", "k", "l", "m",
           "n", "o", "p", "q", "r", "s", "t", "u", "v", "w", "x", "y", "z", "|">>

WhiteSpace == {" ", "\t", "\n", "\r", "\f"}

Ord(ch) == CHOOSE i \in 1..Len(Ascii) : Ascii[i] = ch

\* c in s
Contains(s, ch) == \E i \in 1..Len(s) : s[i] = ch

\* s.find(c), 1-based; 0 when absent
Find(s, ch) ==
    IF Contains(s, ch)
    THEN CHOOSE i \in 1..Len(s) : s[i] = ch /\ \A j \in 1..(i-1) : s[j] # ch
    ELSE 0

\* s.split(c, 1) of a str holding c: <<before the first c, after it>>
SplitFirst(s, ch) ==
    LET i == Find(s, ch)
    IN  <<SubSeq(s, 1, i-1), SubSeq(s, i+1, Len(s))>>

RECURSIVE Split(_, _)
\* s.split(c): never empty; "".split(c) is [""]
Split(s, ch) ==
    IF ~Contains(s, ch) THEN <<s>>
    ELSE LET p == SplitFirst(s, ch) IN <<p[1]>> \o Split(p[2], ch)

RECURSIVE LStrip(_)
LStrip(s) ==
    IF s # <<>> /\ s[1] \in WhiteSpace THEN LStrip(Tail(s)) ELSE s

RECURSIVE RStrip(_)
RStrip(s) ==
    IF s # <<>> /\ s[Len(s)] \in WhiteSpace
    THEN RStrip(SubSeq(s, 1, Len(s)-1)) ELSE s

\* s.strip()
Strip(s) == RStrip(LStrip(s))

RECURSIVE Join(_, _)
\* sep.join(parts), sep one character
Join(parts, sep) ==
    IF parts = <<>> THEN <<>>
    ELSE IF Len(parts) = 1 THEN parts[1]
    ELSE parts[1] \o <<sep>> \o Join(Tail(parts), sep)

\* s.isdigit()
IsDigit(s) ==
    /\ s # <<>>
    /\ \A i \in 1..Len(s) : \E d \in 1..10 : Digits[d] = s[i]

DigitVal(ch) == (CHOOSE d \in 1..10 : Digits[d] = ch) - 1

RECURSIVE StrToInt(_)
\* int(s) of a str of digits
StrToInt(s) ==
    IF s = <<>> THEN 0
    ELSE 10 * StrToInt(SubSeq(s, 1, Len(s)-1)) + DigitVal(s[Len(s)])

RECURSIVE IntToStr(_)
\* str(n), n >= 0
IntToStr(n) ==
    IF n < 10 THEN <<Digits[n+1]>>
    ELSE IntToStr(n \div 10) \o <<Digits[(n % 10) + 1]>>

\* a < b as Python compares str
RECURSIVE StrLess(_, _)
StrLess(a, b) ==
    IF b = <<>> THEN FALSE
    ELSE IF a = <<>> THEN TRUE
    ELSE IF a[1] # b[1] THEN Ord(a[1]) < Ord(b[1])
    ELSE StrLess(Tail(a), Tail(b))

RECURSIVE Insert(_, _)
Insert(sorted, s) ==
    IF sorted = <<>> THEN <<s>>
    ELSE IF StrLess(s, sorted[1]) THEN <<s>> \o sorted
    ELSE <<sorted[1]>> \o Insert(Tail(sorted), s)

RECURSIVE Sorted(_)
\* sorted(list of str)
Sorted(ss) ==
    IF ss = <<>> THEN <<>> ELSE Insert(Sorted(SubSeq(ss, 1, Len(ss)-1)), ss[Len(ss)])

----------------------------------------------------------------------------
(* The string literals of the source *)

S_sentence   == <<"s", "e", "n", "t", "e", "n", "c", "e">>
S_id         == <<"i", "d">>
S_index      == <<"i", "n", "d", "e", "x">>
S_null       == <<"n", "u", "l", "l">>
S_form       == <<"f", "o", "r", "m">>
S_lemma      == <<"l", "e", "m", "m", "a">>
S_upos       == <<"u", "p", "o", "s">>
S_xpos       == <<"x", "p", "o", "s">>
S_head       == <<"h", "e", "a", "d">>
S_deprel     == <<"d", "e", "p", "r", "e", "l">>
S_parent     == <<"p", "a", "r", "e", "n", "t">>
S_child      == <<"c", "h", "i", "l", "d">>
S_sent_id    == <<"s", "e", "n", "t", "_", "i", "d">>
S_SpaceAfter == <<"S", "p", "a", "c", "e", "A", "f", "t", "e", "r">>
S_root       == <<"r", "o", "o", "t">>
S_No         == <<"N", "o">>
S_Yes        == <<"Y", "e", "s">>
S_True       == <<"T", "r", "u", "e">>
S_False      == <<"F", "a", "l", "s", "e">>
S_us         == <<"_">>
S_zero       == <<"0">>

----------------------------------------------------------------------------
(* The reader's working state while one line is processed:                 *)
(*   [sid, id_seq, word_idx, token_idx, edep_count,                        *)
(*    types, parents, feats, relations, exc]                               *)
(* exc is the exception in flight: kind "none", "ReaderError", "NameError" *)

NoExc == [kind |-> "none", text |-> "", arg |-> <<>>]

Raised(c) == c.exc.kind # "none"

Put(f, k, v) == (k :> v) @@ f

\* a name of the current block as a node of the store
Node(c, name) == <<c.sid, name>>

set_type(c, name, typ) ==
    [c EXCEPT !.types = Put(@, Node(c, name), typ),
              !.id_seq = IF \E i \in 1..Len(@) : @[i] = name
                         THEN @ ELSE Append(@, name)]

set_parent(c, name, parent) ==
    [c EXCEPT !.parents = Put(@, Node(c, name), Node(c, parent))]

set_feature(c, name, tier, feat, typ, val) ==
    [c EXCEPT !.feats = Put(@, <<Node(c, name), tier, feat>>,
                            [typ |-> typ, val |-> val])]

add_relation(c, from, to) ==
    [c EXCEPT !.relations = Append(@, <<Node(c, from), Node(c, to)>>)]

\* Reader.error: raises ReaderError(msg)
error(c, text, arg) ==
    [c EXCEPT !.exc = [kind |-> "ReaderError", text |-> text, arg |-> arg]]

\* the evaluation of a name that is bound nowhere
NameError(c, var) ==
    [c EXCEPT !.exc = [kind |-> "NameError", text |-> "name is not defined",
                       arg |-> var]]

\* reset that leaves the word counter
reset_keeps_word_idx(c) == [c EXCEPT !.token_idx = 0, !.edep_count = 0]

\* ConnluReader.reset
reset(c) == [c EXCEPT !.word_idx = 0, !.token_idx = 0, !.edep_count = 0]

----------------------------------------------------------------------------
(* ConnluReader.process_line *)

\* the names process_line binds; the module binds none of its own but the
\* classes and the imports
process_line_locals ==
    {"line", "k", "v", "columns", "name", "is_token", "a", "b", "ch", "group",
     "val", "pair", "typ", "feat", "col", "col_names", "ename", "head", "rel"}

module_globals == {"LineReader", "ReaderError", "Writer", "ConnluReader",
                   "ConlluWriter"}

IsBound(var) == var \in process_line_locals \cup module_globals

\* the comment line: a sentence feature when it holds '='
comment_line(c, line) ==
    IF Contains(line, "=")
    THEN LET kv == SplitFirst(Tail(line), "=")
         IN  set_feature(c, S_sentence, "UD", Strip(kv[1]), "str", Strip(kv[2]))
    ELSE c

RECURSIVE add_relations_exclusive(_, _, _, _)
\* add_relations over range(lo, hi)
add_relations_exclusive(c, lo, hi, name) ==
    IF lo >= hi THEN c
    ELSE add_relations_exclusive(add_relation(c, IntToStr(lo), name), lo + 1, hi, name)

RECURSIVE add_relations(_, _, _, _)
\* for ch in range(lo, hi+1): add_relation(str(ch), name)
add_relations(c, lo, hi, name) ==
    IF lo > hi THEN c
    ELSE add_relations(add_relation(c, IntToStr(lo), name), lo + 1, hi, name)

\* the node of the row, its index and the relations of a token
row_node(c, columns) ==
    LET name == columns[1]
        is_token == Contains(name, "-")
        c1 == set_type(c, name, IF is_token THEN "token" ELSE "word")
        c2 == set_parent(c1, name, S_sentence)
        c3 == set_feature(c2, name, "UD", S_id, "str", name)
    IN  IF is_token
        THEN LET c4 == [c3 EXCEPT !.token_idx = @ + 1]
                 c5 == set_feature(c4, name, "meta", S_index, "int", c4.token_idx)
                 ab == SplitFirst(name, "-")
             IN  IF IsDigit(ab[1]) /\ IsDigit(ab[2])
                 THEN add_relations(c5, StrToInt(ab[1]), StrToInt(ab[2]), name)
                 ELSE c5
        ELSE LET c4 == [c3 EXCEPT !.word_idx = @ + 1]
                 c5 == set_feature(c4, name, "meta", S_index, "int", c4.word_idx)
             IN  set_feature(c5, name, "UD", S_null, "bool", Contains(name, "."))

\* kv_value with the boolean taken as v == 'Yes'
kv_value_only_yes(k, v) ==
    IF k = S_SpaceAfter THEN [typ |-> "bool", val |-> (v = S_Yes)]
    ELSE [typ |-> "str", val |-> v]

\* SpaceAfter becomes a boolean: v != 'No'
kv_value(k, v) ==
    IF k = S_SpaceAfter THEN [typ |-> "bool", val |-> (v # S_No)]
    ELSE [typ |-> "str", val |-> v]

RECURSIVE kv_pairs(_, _, _, _)
\* for pair in val.split('|'): one feature of tier `group` per key=value
kv_pairs(c, name, group, pairs) ==
    IF pairs = <<>> \/ Raised(c) THEN c
    ELSE LET pair == Head(pairs)
         IN  IF ~Contains(pair, "=")
             THEN error(c, "Invalid key-value pair '{}'.", pair)
             ELSE LET kv == SplitFirst(pair, "=")
                      tv == kv_value(kv[1], kv[2])
                  IN  kv_pairs(set_feature(c, name, group, kv[1], tv.typ, tv.val),
                               name, group, Tail(pairs))

kv_column(c, name, group, val) ==
    IF Raised(c) \/ val = S_us THEN c
    ELSE kv_pairs(c, name, group, Split(val, "|"))

\* the FEATS column, then the MISC column
row_kv(c, columns) ==
    kv_column(kv_column(c, columns[1], "UD/FEATS", columns[6]),
              columns[1], "UD/MISC", columns[10])

\* (feature, column) as in col_names, columns counted from 1
col_names == << <<S_form, 2>>, <<S_lemma, 3>>, <<S_upos, 4>>, <<S_xpos, 5>>,
                <<S_head, 7>>, <<S_deprel, 8>> >>

\* col_feat without the test for the root marker
col_feat_keeps_zero(c, columns, feat, col) ==
    IF columns[col] = S_us THEN c
    ELSE set_feature(c, columns[1], "UD", feat,
                     IF feat = S_head THEN "ref" ELSE "str", columns[col])

col_feat(c, columns, feat, col) ==
    IF columns[col] = S_us THEN c
    ELSE IF feat = S_head /\ columns[col] = S_zero THEN c
    ELSE set_feature(c, columns[1], "UD", feat,
                     IF feat = S_head THEN "ref" ELSE "str", columns[col])

RECURSIVE row_cols(_, _, _)
row_cols(c, columns, names) ==
    IF names = <<>> \/ Raised(c) THEN c
    ELSE row_cols(col_feat(c, columns, names[1][1], names[1][2]),
                  columns, Tail(names))

\* one head:deprel pair of the DEPS column
edep(c, name, pair) ==
    IF ~Contains(pair, ":")
    THEN error(c, "Invalid dependency specifier '{}'.", pair)
    ELSE LET c1 == [c EXCEPT !.edep_count = @ + 1]
             ename == <<TAB>> \o IntToStr(c1.edep_count)
             c2 == set_type(c1, ename, "UD-edep")
             c3 == set_parent(c2, ename, S_sentence)
             hr == SplitFirst(pair, ":")
             locals == [head |-> hr[1], rel |-> hr[2]]
         IN  IF ~IsBound("h") THEN NameError(c3, <<"h">>)
             ELSE LET c4 == set_feature(c3, ename, "UD", S_parent, "ref", locals.head)
                      c5 == set_feature(c4, ename, "UD", S_child, "ref", name)
                  IN  set_feature(c5, ename, "UD", S_deprel, "str", locals.rel)

RECURSIVE edeps(_, _, _)
edeps(c, name, pairs) ==
    IF pairs = <<>> \/ Raised(c) THEN c
    ELSE edeps(edep(c, name, Head(pairs)), name, Tail(pairs))

row_deps(c, columns) ==
    IF Raised(c) \/ columns[9] = S_us THEN c
    ELSE edeps(c, columns[1], Split(columns[9], "|"))

\* the split without the strip
Columns_nostrip(line) == Split(line, TAB)

\* line.strip().split('\t')
Columns(line) == Split(Strip(line), TAB)

process_line(c, line) ==
    IF line = <<>> THEN c
    ELSE IF line[1] = "#" THEN comment_line(c, line)
    ELSE LET columns == Columns(line)
         IN  IF Len(columns) # 10
             THEN error(c, "Expected 10 columns, found {}.", IntToStr(Len(columns)))
             ELSE row_deps(row_cols(row_kv(row_node(c, columns), columns),
                                    columns, col_names), columns)

----------------------------------------------------------------------------
(* The store as the writer queries it *)

Tiers == {"UD", "UD/FEATS", "UD/MISC"}

\* Writer.all_feats_from_tiers: the feature keys (tier, name, type) in use
all_feats_from_tiers(fs, tiers) ==
    {<<k[2], k[3], fs[k].typ>> : k \in {x \in DOMAIN fs : x[2] \in tiers}}

\* the value of feature (tier, name) of node n, whatever its type
HasFeat(fs, n, tier, feat) == <<n, tier, feat>> \in DOMAIN fs

FeatVal(fs, n, tier, feat) == fs[<<n, tier, feat>>].val

\* the names of the features node n has in a tier
FeatNames(fs, n, tier) == {k[3] : k \in {x \in DOMAIN fs : x[1] = n /\ x[2] = tier}}

MetaIndex(fs, n) == FeatVal(fs, n, "meta", S_index)

RECURSIVE ByIndex(_, _)
\* a set of nodes as a sequence, by meta:index
ByIndex(fs, nodes) ==
    IF nodes = {} THEN <<>>
    ELSE LET n == CHOOSE x \in nodes :
                      \A y \in nodes : MetaIndex(fs, x) <= MetaIndex(fs, y)
         IN  <<n>> \o ByIndex(fs, nodes \ {n})

\* Writer.iter_units(type, feats, parent): the units of a type, in order
iter_units(ts, ps, fs, typ, parent) ==
    ByIndex(fs, {n \in DOMAIN ts :
                    /\ ts[n] = typ
                    /\ HasFeat(fs, n, "meta", S_index)
                    /\ (parent # <<>> => n \in DOMAIN ps /\ ps[n] = parent)})

RECURSIVE SetToSorted(_)
\* a set of str as a sorted sequence
SetToSorted(S) ==
    IF S = {} THEN <<>>
    ELSE LET m == CHOOSE x \in S : \A y \in S : x = y \/ StrLess(x, y)
         IN  <<m>> \o SetToSorted(S \ {m})

----------------------------------------------------------------------------
(* ConlluWriter.write *)

\* f'{v}' of a stored value
Fmt(tv) ==
    IF tv.typ = "bool" THEN (IF tv.val THEN S_True ELSE S_False)
    ELSE IF tv.typ = "int" THEN IntToStr(tv.val)
    ELSE tv.val

\* next_widx without idx2 = 0
next_widx_no_reset(idx1, idx2, isnull) ==
    IF isnull
    THEN <<idx1, idx2 + 1, IntToStr(idx1) \o <<":">> \o IntToStr(idx2 + 1)>>
    ELSE <<idx1 + 1, idx2, IntToStr(idx1 + 1)>>

\* the next position: <<idx1, idx2, widx>> after a word
next_widx(idx1, idx2, isnull) ==
    IF isnull
    THEN <<idx1, idx2 + 1, IntToStr(idx1) \o <<":">> \o IntToStr(idx2 + 1)>>
    ELSE <<idx1 + 1, 0, IntToStr(idx1 + 1)>>

\* wfeats.get(null, False) == True
is_null(fs, w) ==
    /\ HasFeat(fs, w, "UD", S_null)
    /\ fs[<<w, "UD", S_null>>].typ = "bool"
    /\ FeatVal(fs, w, "UD", S_null) = TRUE

RECURSIVE positions(_, _, _, _)
\* the rendered position of every word of the sentence, in word order
positions(fs, ws, idx1, idx2) ==
    IF ws = <<>> THEN <<>>
    ELSE LET p == next_widx(idx1, idx2, is_null(fs, Head(ws)))
         IN  <<p[3]>> \o positions(fs, Tail(ws), p[1], p[2])

\* name=value of one UD/FEATS feature
feat_entry(fs, w, feat) ==
    feat \o <<"=">> \o Fmt(fs[<<w, "UD/FEATS", feat>>])

\* name=value of one UD/MISC feature; the boolean SpaceAfter is No or Yes
\* (the stored booleans are True and False: the legacy value b'0' of the
\* source's test is not a value set_feature is ever given)
misc_entry(fs, w, feat) ==
    LET tv == fs[<<w, "UD/MISC", feat>>]
    IN  feat \o <<"=">> \o
        (IF feat = S_SpaceAfter /\ tv.typ = "bool"
         THEN (IF ~tv.val THEN S_No ELSE S_Yes)
         ELSE Fmt(tv))

RECURSIVE MapEntries(_, _, _, _)
MapEntries(fs, w, names, misc) ==
    IF names = <<>> THEN <<>>
    ELSE <<IF misc THEN misc_entry(fs, w, Head(names))
           ELSE feat_entry(fs, w, Head(names))>>
         \o MapEntries(fs, w, Tail(names), misc)

\* '|'.join(sorted(entries)), or '_' when there is none
kv_cell(fs, w, tier) ==
    LET names == SetToSorted(FeatNames(fs, w, tier))
        entries == MapEntries(fs, w, names, tier = "UD/MISC")
    IN  IF entries = <<>> THEN S_us ELSE Join(Sorted(entries), "|")

\* a column written from a tier-UD feature, '_' without it
ud_cell(fs, w, feat) ==
    IF HasFeat(fs, w, "UD", feat) THEN FeatVal(fs, w, "UD", feat) ELSE S_us

\* the row of word w before the heads are resolved (column 6 is '_')
word_row(fs, w, widx) ==
    <<widx, ud_cell(fs, w, S_form), ud_cell(fs, w, S_lemma),
      ud_cell(fs, w, S_upos), ud_cell(fs, w, S_xpos),
      kv_cell(fs, w, "UD/FEATS"), S_us, ud_cell(fs, w, S_deprel), S_us,
      kv_cell(fs, w, "UD/MISC")>>

\* the node a reference value of a feature of node w points at
Ref(w, v) == <<w[1], v>>

\* resolve_head against the words visited so far only
resolve_head_backward(fs, ws, pos, i, row) ==
    IF HasFeat(fs, ws[i], "UD", S_head)
    THEN LET h == Ref(ws[i], FeatVal(fs, ws[i], "UD", S_head))
         IN  IF \E j \in 1..i : ws[j] = h
             THEN [row EXCEPT ![7] = pos[CHOOSE j \in 1..i : ws[j] = h]]
             ELSE row
    ELSE row

\* for i, h in heads: if h in id2idx: words[i][6] = id2idx[h]
resolve_head(fs, ws, pos, i, row) ==
    IF HasFeat(fs, ws[i], "UD", S_head)
    THEN LET h == Ref(ws[i], FeatVal(fs, ws[i], "UD", S_head))
         IN  IF \E j \in 1..Len(ws) : ws[j] = h
             THEN [row EXCEPT ![7] = pos[CHOOSE j \in 1..Len(ws) : ws[j] = h]]
             ELSE row
    ELSE row

\* if row[6] == '_' and row[7] == 'root': row[6] = '0'
root_fixup(row) ==
    IF row[7] = S_us /\ row[8] = S_root THEN [row EXCEPT ![7] = S_zero] ELSE row

\* the rows of the words ws of one sentence
sentence_rows(fs, ws) ==
    LET pos == positions(fs, ws, 0, 0)
    IN  [i \in 1..Len(ws) |->
            root_fixup(resolve_head(fs, ws, pos, i, word_row(fs, ws[i], pos[i])))]

RECURSIVE comment_lines(_, _, _)
\* '# feat = v' for the tier-UD features of the sentence but sent_id
comment_lines(fs, s, names) ==
    IF names = <<>> THEN <<>>
    ELSE (IF Head(names) = S_sent_id THEN <<>>
          ELSE << <<"#", " ">> \o Head(names) \o <<" ", "=", " ">>
                  \o Fmt(fs[<<s, "UD", Head(names)>>]) >>)
         \o comment_lines(fs, s, Tail(names))

\* sfeats.get(sent_id, sid)
sent_id_of(fs, s) ==
    IF HasFeat(fs, s, "UD", S_sent_id) /\ fs[<<s, "UD", S_sent_id>>].typ \in {"str", "int"}
    THEN Fmt(fs[<<s, "UD", S_sent_id>>])
    ELSE IntToStr(s[1])

RECURSIVE JoinRows(_)
JoinRows(rows) ==
    IF rows = <<>> THEN <<>> ELSE <<Join(Head(rows), TAB)>> \o JoinRows(Tail(rows))

\* what write puts out for sentence s, line by line
write_sentence(ts, ps, fs, s) ==
    LET ws == iter_units(ts, ps, fs, "word", s)
        rows == sentence_rows(fs, ws)
    IN  << <<"#", " ">> \o S_sent_id \o <<" ", "=", " ">> \o sent_id_of(fs, s) >>
        \o comment_lines(fs, s, SetToSorted(FeatNames(fs, s, "UD")))
        \o (IF rows = <<>> THEN << <<>> >> ELSE JoinRows(rows))
        \o << <<>> >>

RECURSIVE write_all(_, _, _, _)
write_all(ts, ps, fs, ss) ==
    IF ss = <<>> THEN <<>>
    ELSE << [sent |-> Head(ss), lines |-> write_sentence(ts, ps, fs, Head(ss))] >>
         \o write_all(ts, ps, fs, Tail(ss))

write(ts, ps, fs) == write_all(ts, ps, fs, iter_units(ts, ps, fs, "sentence", <<>>))

----------------------------------------------------------------------------
(* The input: the lines the files are made of *)

MaxFiles == 2
MaxLinesBatch == 3
MaxLinesRows == 3
MaxLinesSent == 4

\* a row from its ten columns
Row(id, form, lemma, upos, xpos, fts, head, deprel, deps, misc) ==
    Join(<<id, form, lemma, upos, xpos, fts, head, deprel, deps, misc>>, TAB)

U == S_us
V_det == <<"d", "e", "t">>
V_nsubj == <<"n", "s", "u", "b", "j">>
V_obj == <<"o", "b", "j">>
V_deps2 == <<"2", ":">> \o V_nsubj \o <<"|", "4", ":">> \o V_obj
V_deps1 == <<"2", ":">> \o V_nsubj
V_case == <<"C", "a", "s", "e", "=", "N", "o", "m">>
V_SA_No == S_SpaceAfter \o <<"=">> \o S_No
V_SA_Yes == S_SpaceAfter \o <<"=">> \o S_Yes
V_SA_no == S_SpaceAfter \o <<"=", "n", "o">>
V_SA_mixed == <<"A", "=", "b", "|">> \o V_SA_No

\* column counts and failures: a batch of files
LinesBatch ==
    { Row(<<"1">>, <<"a">>, U, U, U, U, <<"0">>, S_root, U, U),
      \* 9 and 11 columns
      Join(<<<<"1">>, <<"a">>, U, U, U, U, U, U, U>>, TAB),
      Join(<<<<"1">>, <<"a">>, U, U, U, U, U, U, U, U, U>>, TAB),
      \* 10 columns, the last one empty; 11 columns, the last one empty
      Row(<<"1">>, <<"a">>, U, U, U, U, U, U, U, <<>>),
      Join(<<<<"1">>, <<"a">>, U, U, U, U, U, U, U, U, <<>>>>, TAB),
      \* a valid DEPS column
      Row(<<"2">>, <<"b">>, U, U, U, U, <<"1">>, V_det, V_deps1, U),
      <<"#", " ", "x", " ", "=", " ", "y">>,
      <<>> }

\* single rows: tokens, HEAD, DEPS, MISC
LinesRows ==
    { Row(<<"3">>, <<"a">>, U, U, U, U, <<"2">>, V_det, U, V_SA_No),
      Row(<<"3">>, <<"a">>, U, U, U, V_case, <<"0">>, S_root, U, V_SA_Yes),
      Row(<<"3">>, U, U, U, U, U, U, U, U, V_SA_no),
      Row(<<"4">>, <<"b">>, U, U, U, U, <<"0", "0">>, U, U, V_SA_mixed),
      Row(<<"3">>, <<"a">>, U, U, U, U, U, U, V_deps2, U),
      Row(<<"3">>, <<"a">>, U, U, U, U, U, U, <<"x">>, U),
      Row(<<"3">>, <<"a">>, U, U, U, <<"x">>, <<"2">>, U, U, U),
      Row(<<"3", "-", "4">>, <<"a", "b">>, U, U, U, U, U, U, U, U),
      Row(<<"a", "-", "b">>, <<"a", "b">>, U, U, U, U, U, U, U, U),
      Row(<<"4", "-", "3">>, <<"a", "b">>, U, U, U, U, U, U, U, U),
      Row(<<"3", "-", "4", "-", "5">>, <<"a", "b">>, U, U, U, U, U, U, U, U),
      Row(<<"0", "9", "-", "1", "0">>, <<"a", "b">>, U, U, U, U, <<"0">>, U, U, U) }

\* the words of a sentence: positions, heads, word order
LinesSent ==
    { Row(<<"1">>, <<"a">>, <<"l">>, <<"D">>, <<"x">>, U, <<"2">>, V_det, U, U),
      Row(<<"2">>, <<"b">>, U, <<"N">>, U, U, <<"0">>, S_root, U, U),
      Row(<<"1", ".", "1">>, <<"c">>, U, U, U, U, <<"1">>, U, U, U),
      Row(<<"1", ".", "2">>, U, <<"m">>, U, U, U, <<"5">>, S_root, U, U),
      Row(<<"1", "-", "2">>, <<"a", "b">>, U, U, U, U, U, U, U, U),
      Row(<<"2", "-", "3">>, <<"b", "d">>, U, U, U, U, U, U, U, U),
      Row(<<"3">>, <<"d">>, U, U, U, U, <<"2">>, V_obj, V_deps1, U),
      <<>> }

Lines ==
    IF profile = "batch" THEN LinesBatch
    ELSE IF profile = "rows" THEN LinesRows
    ELSE LinesSent

NFiles == IF profile = "batch" THEN MaxFiles ELSE 1

MaxLines ==
    IF profile = "batch" THEN MaxLinesBatch
    ELSE IF profile = "rows" THEN MaxLinesRows
    ELSE MaxLinesSent

----------------------------------------------------------------------------
(* LineReader around process_line, and Importer.run *)

\* the reader's working state, from the variables
Ctx == [sid |-> sid, id_seq |-> id_seq, word_idx |-> word_idx,
        token_idx |-> token_idx, edep_count |-> edep_count, types |-> types,
        parents |-> parents, feats |-> feats, relations |-> relations,
        exc |-> NoExc]

\* ConnluReader.end: the sentence node, when the block declared any node
end(c) ==
    IF c.id_seq # <<>>
    THEN set_feature(set_type(c, S_sentence, "sentence"),
                     S_sentence, "meta", S_index, "int", block_count)
    ELSE c

\* LineReader at a block boundary: end(), then the next block and reset()
next_block(c) ==
    reset([end(c) EXCEPT !.sid = @ + 1, !.id_seq = <<>>])

NoLine == [line |-> <<>>, exc |-> NoExc, pre |-> [word_idx |-> 0, token_idx |-> 0,
           edep_count |-> 0, nrel |-> 0, sid |-> 0, known |-> FALSE, hashead |-> FALSE,
           head |-> <<>>], row |-> FALSE]

Store(c) ==
    /\ sid' = c.sid
    /\ id_seq' = c.id_seq
    /\ word_idx' = c.word_idx
    /\ token_idx' = c.token_idx
    /\ edep_count' = c.edep_count
    /\ types' = c.types
    /\ parents' = c.parents
    /\ feats' = c.feats
    /\ relations' = c.relations

\* for pth in self.infiles: reader.read(pth) opens the file: a fresh block
StartFile ==
    /\ phase = "loop"
    /\ fileIdx < NFiles
    /\ fileIdx' = fileIdx + 1
    /\ attempted' = Append(attempted, fileIdx + 1)
    /\ phase' = "reading"
    /\ Store(reset([Ctx EXCEPT !.sid = @ + 1, !.id_seq = <<>>]))
    /\ input' = Append(input, <<>>)
    /\ last' = NoLine
    /\ UNCHANGED <<log, profile, nread, block_count, out>>

\* the loop over infiles is over
RunDone ==
    /\ phase = "loop"
    /\ fileIdx = NFiles
    /\ phase' = "done"
    /\ UNCHANGED <<fileIdx, log, attempted, profile, nread, sid, block_count,
                   id_seq, word_idx, token_idx, edep_count, types, parents,
                   feats, relations, last, input, out>>

\* the next line of the file. A blank line closes the block. Any other line
\* goes to process_line; a ReaderError ends the file and is logged by run,
\* any other exception leaves run.
ReadLine(line) ==
    /\ phase = "reading"
    /\ nread < MaxLines
    /\ nread' = nread + 1
    /\ LET c == IF line = <<>> THEN next_block(process_line(Ctx, line))
                ELSE process_line(Ctx, line)
       IN  /\ Store(c)
           /\ block_count' = IF line = <<>> /\ id_seq # <<>>
                             THEN block_count + 1 ELSE block_count
           /\ input' = IF line = <<>> THEN Append(input, <<>>)
                       ELSE [input EXCEPT ![sid] = Append(@, line)]
           /\ last' = [line |-> line, exc |-> c.exc,
                       pre |-> [word_idx |-> word_idx, token_idx |-> token_idx,
                                edep_count |-> edep_count, nrel |-> Len(relations),
                                sid |-> sid,
                                known |-> line # <<>> /\ line[1] # "#"
                                          /\ <<sid, Columns(line)[1]>> \in DOMAIN types,
                                hashead |-> line # <<>> /\ line[1] # "#"
                                          /\ HasFeat(feats, <<sid, Columns(line)[1]>>, "UD", S_head),
                                head |-> IF line # <<>> /\ line[1] # "#"
                                            /\ HasFeat(feats, <<sid, Columns(line)[1]>>, "UD", S_head)
                                         THEN FeatVal(feats, <<sid, Columns(line)[1]>>, "UD", S_head)
                                         ELSE <<>>],
                       row |-> line # <<>> /\ line[1] # "#"]
           /\ phase' = IF c.exc.kind = "ReaderError" THEN "loop"
                       ELSE IF c.exc.kind = "NameError" THEN "aborted"
                       ELSE "reading"
           /\ log' = IF c.exc.kind = "ReaderError"
                     THEN Append(log, [level |-> "error", file |-> fileIdx])
                     ELSE log
    /\ UNCHANGED <<fileIdx, attempted, profile, out>>

\* the end of the file: the last block is closed, run logs the file as read
EndFile ==
    /\ phase = "reading"
    /\ Store(end(Ctx))
    /\ block_count' = IF id_seq # <<>> THEN block_count + 1 ELSE block_count
    /\ log' = Append(log, [level |-> "info", file |-> fileIdx])
    /\ phase' = "loop"
    /\ last' = NoLine
    /\ UNCHANGED <<fileIdx, attempted, profile, nread, input, out>>

\* ConlluWriter.write over the store the import left
Write ==
    /\ phase \in {"done", "aborted"}
    /\ out' = write(types, parents, feats)
    /\ phase' = "written"
    /\ UNCHANGED <<fileIdx, log, attempted, profile, nread, sid, block_count,
                   id_seq, word_idx, token_idx, edep_count, types, parents,
                   feats, relations, last, input>>

InitWith(p) ==
    /\ phase = "loop"
    /\ fileIdx = 0
    /\ log = <<>>
    /\ attempted = <<>>
    /\ profile = p
    /\ nread = 0
    /\ sid = 0
    /\ block_count = 0
    /\ id_seq = <<>>
    /\ word_idx = 0
    /\ token_idx = 0
    /\ edep_count = 0
    /\ types = <<>>
    /\ parents = <<>>
    /\ feats = <<>>
    /\ relations = <<>>
    /\ last = NoLine
    /\ input = <<>>
    /\ out = <<>>

\* the file holds any line of the pool next
ReadAny == \E line \in Lines : ReadLine(line)

Next ==
    \/ StartFile
    \/ RunDone
    \/ ReadAny
    \/ EndFile
    \/ Write

Spec == InitWith("batch") /\ [][Next]_vars

SpecRows == InitWith("rows") /\ [][Next]_vars

SpecSent == InitWith("sent") /\ [][Next]_vars

----------------------------------------------------------------------------
(* What the claims are stated over *)

\* the last line delivered was an annotation row (not blank, not a comment)
LastIsRow == last.row

LastCols == Columns(last.line)

\* the node the last row is about
LastNode == <<last.pre.sid, LastCols[1]>>

\* the sentence node of the block of the last row
LastSentence == <<last.pre.sid, S_sentence>>

ColumnError ==
    last.exc.kind = "ReaderError" /\ last.exc.text = "Expected 10 columns, found {}."

PairError ==
    last.exc.kind = "ReaderError" /\ last.exc.text = "Invalid key-value pair '{}'."

\* the number of tab characters of a str
TabCount(s) == Cardinality({i \in 1..Len(s) : s[i] = TAB})

AllHave(pairs, ch) == \A i \in 1..Len(pairs) : Contains(pairs[i], ch)

\* every FEATS and MISC entry of the columns holds '='
KvWellFormed(cols) ==
    /\ cols[6] # S_us => AllHave(Split(cols[6], "|"), "=")
    /\ cols[10] # S_us => AllHave(Split(cols[10], "|"), "=")

----------------------------------------------------------------------------
(* C1: Importer.run attempts every file of the list once, in list order,   *)
(* and logs one outcome per file: no failure of a file ends the batch.     *)
C1_BatchNeverAborted ==
    phase \in {"done", "aborted", "written"} =>
        /\ attempted = [i \in 1..NFiles |-> i]
        /\ Len(log) = NFiles
        /\ \A i \in 1..NFiles : log[i].file = i

(* C2: a row whose DEPS column is not '_' creates, for its i-th            *)
(* head:deprel pair, one UD-edep node with a fresh id, whose parent is the *)
(* sentence, with UD:parent = the head id, UD:child = the row's id and     *)
(* UD:deprel = the relation label.                                         *)
C2_EdepNodes ==
    (LastIsRow /\ Len(LastCols) = 10 /\ KvWellFormed(LastCols)
       /\ LastCols[9] # S_us /\ AllHave(Split(LastCols[9], "|"), ":")) =>
    LET pairs == Split(LastCols[9], "|")
    IN  \A i \in 1..Len(pairs) :
          LET e == <<last.pre.sid, <<TAB>> \o IntToStr(last.pre.edep_count + i)>>
              hr == SplitFirst(pairs[i], ":")
          IN  /\ e \in DOMAIN types /\ types[e] = "UD-edep"
              /\ e \in DOMAIN parents /\ parents[e] = LastSentence
              /\ HasFeat(feats, e, "UD", S_parent)
              /\ feats[<<e, "UD", S_parent>>] = [typ |-> "ref", val |-> hr[1]]
              /\ HasFeat(feats, e, "UD", S_child)
              /\ feats[<<e, "UD", S_child>>] = [typ |-> "ref", val |-> LastCols[1]]
              /\ HasFeat(feats, e, "UD", S_deprel)
              /\ feats[<<e, "UD", S_deprel>>] = [typ |-> "str", val |-> hr[2]]

(* C3, as stated: a row signals the column-count error exactly when the    *)
(* line does not split on tab into 10 columns, and the message reports     *)
(* that count.                                                             *)
C3_RawColumnCount ==
    LastIsRow =>
        LET n == TabCount(last.line) + 1
        IN  /\ ColumnError <=> n # 10
            /\ ColumnError => last.exc.arg = IntToStr(n)

(* C3, amended: a row signals the column-count error exactly when the line *)
(* with its leading and trailing whitespace stripped does not split on tab *)
(* into 10 columns, and the message reports the count of the stripped line.*)
C3_StrippedColumnCount ==
    LastIsRow =>
        LET n == TabCount(Strip(last.line)) + 1
        IN  /\ ColumnError <=> n # 10
            /\ ColumnError => last.exc.arg = IntToStr(n)

\* an 11-column row was refused, the message naming 11
C3_Witness ==
    /\ LastIsRow
    /\ TabCount(last.line) = 10
    /\ ColumnError
    /\ last.exc.arg = <<"1", "1">>

\* process_line got as far as the single-valued columns of the last row
ReachedColumns == LastIsRow /\ Len(LastCols) = 10 /\ ~PairError

(* C4: no node has a UD:head feature of value '0'; a row whose HEAD is '0' *)
(* or '_' does not set UD:head (a node first seen in that row has none),   *)
(* and any other HEAD is stored as a reference holding the raw string.     *)
C4_HeadNeverZero ==
    /\ \A k \in DOMAIN feats :
          (k[2] = "UD" /\ k[3] = S_head) => feats[k].val # S_zero
    /\ ReachedColumns =>
          IF LastCols[7] \in {S_us, S_zero}
          THEN /\ HasFeat(feats, LastNode, "UD", S_head) = last.pre.hashead
               /\ last.pre.hashead =>
                     FeatVal(feats, LastNode, "UD", S_head) = last.pre.head
          ELSE /\ HasFeat(feats, LastNode, "UD", S_head)
               /\ feats[<<LastNode, "UD", S_head>>]
                     = [typ |-> "ref", val |-> LastCols[7]]

\* a row with HEAD '0' was decoded and its node has no UD:head
C4_Witness ==
    /\ ReachedColumns
    /\ last.exc.kind = "none"
    /\ LastCols[7] = S_zero
    /\ ~HasFeat(feats, LastNode, "UD", S_head)

\* the relations the last line added
Added == SubSeq(relations, last.pre.nrel + 1, Len(relations))

(* C9: a row whose id holds '-' is a token; when both halves of the id,    *)
(* split on the first '-', are digits a and b, the row adds exactly one    *)
(* relation from each word id in [a, b] to the token and no other; when a  *)
(* half is not numeric, and for a row whose id holds no '-', it adds none. *)
C9_TokenRelations ==
    LastIsRow =>
        IF Len(LastCols) # 10 THEN Added = <<>>
        ELSE IF ~Contains(LastCols[1], "-")
        THEN Added = <<>> /\ types[LastNode] = "word"
        ELSE /\ types[LastNode] = "token"
             /\ LET ab == SplitFirst(LastCols[1], "-")
                IN  IF IsDigit(ab[1]) /\ IsDigit(ab[2])
                    THEN LET a == StrToInt(ab[1])
                             b == StrToInt(ab[2])
                         IN  /\ \A k \in a..b :
                                   Cardinality({i \in 1..Len(Added) :
                                       Added[i] = <<<<last.pre.sid, IntToStr(k)>>, LastNode>>}) = 1
                             /\ \A i \in 1..Len(Added) :
                                   /\ Added[i][2] = LastNode
                                   /\ \E k \in a..b :
                                         Added[i][1] = <<last.pre.sid, IntToStr(k)>>
                    ELSE Added = <<>>

\* the token 3-4 was decoded: relations from 3 and from 4
C9_Witness ==
    /\ LastIsRow
    /\ Len(LastCols) = 10
    /\ LastCols[1] = <<"3", "-", "4">>
    /\ Added = << <<<<last.pre.sid, <<"3">>>>, LastNode>>,
                  <<<<last.pre.sid, <<"4">>>>, LastNode>> >>

IsRowLine(l) == l # <<>> /\ l[1] # "#"

\* the rows of one sentence of the output, each split into its columns
OutRows(e) ==
    LET ls == SelectSeq(e.lines, IsRowLine)
    IN  [i \in 1..Len(ls) |-> Split(ls[i], TAB)]

\* the words of sentence s as the writer iterates them
Words(s) == iter_units(types, parents, feats, "word", s)

InSeq(x, sq) == \E i \in 1..Len(sq) : sq[i] = x

(* C10: a MISC entry SpaceAfter=v is stored as the boolean UD/MISC feature *)
(* SpaceAfter, false exactly when v is 'No'; the writer renders a stored   *)
(* false as SpaceAfter=No and a stored true as SpaceAfter=Yes.             *)
C10_SpaceAfter ==
    /\ (LastIsRow /\ Len(LastCols) = 10 /\ KvWellFormed(LastCols)
          /\ LastCols[10] # S_us) =>
       LET pairs == Split(LastCols[10], "|")
       IN  \A i \in 1..Len(pairs) :
              (/\ SplitFirst(pairs[i], "=")[1] = S_SpaceAfter
               /\ \A j \in (i+1)..Len(pairs) :
                     SplitFirst(pairs[j], "=")[1] # S_SpaceAfter) =>
              /\ HasFeat(feats, LastNode, "UD/MISC", S_SpaceAfter)
              /\ feats[<<LastNode, "UD/MISC", S_SpaceAfter>>].typ = "bool"
              /\ (FeatVal(feats, LastNode, "UD/MISC", S_SpaceAfter) = FALSE)
                    <=> (SplitFirst(pairs[i], "=")[2] = S_No)
    /\ phase = "written" =>
       \A n \in 1..Len(out) :
          LET ws == Words(out[n].sent)
              rows == OutRows(out[n])
          IN  /\ Len(rows) = Len(ws)
              /\ \A j \in 1..Len(ws) :
                    (/\ HasFeat(feats, ws[j], "UD/MISC", S_SpaceAfter)
                     /\ feats[<<ws[j], "UD/MISC", S_SpaceAfter>>].typ = "bool") =>
                    LET cell == Split(rows[j][10], "|")
                        v == FeatVal(feats, ws[j], "UD/MISC", S_SpaceAfter)
                    IN  /\ InSeq(V_SA_No, cell) <=> (v = FALSE)
                        /\ InSeq(V_SA_Yes, cell) <=> (v = TRUE)

\* a row read with SpaceAfter=No was written back with SpaceAfter=No
C10_Witness ==
    /\ phase = "written"
    /\ \E n \in 1..Len(out) :
          /\ \E i \in 1..Len(input[out[n].sent[1]]) :
                Columns(input[out[n].sent[1]][i])[10] = V_SA_No
          /\ \E j \in 1..Len(OutRows(out[n])) :
                /\ OutRows(out[n])[j][10] = V_SA_No
                /\ FeatVal(feats, Words(out[n].sent)[j], "UD/MISC", S_SpaceAfter) = FALSE

\* the word of ws whose UD:id is the head id stored on word w, 0 without one
HeadIndex(ws, w) ==
    IF HasFeat(feats, w, "UD", S_head)
       /\ \E j \in 1..Len(ws) :
             FeatVal(feats, ws[j], "UD", S_id) = FeatVal(feats, w, "UD", S_head)
    THEN CHOOSE j \in 1..Len(ws) :
             FeatVal(feats, ws[j], "UD", S_id) = FeatVal(feats, w, "UD", S_head)
    ELSE 0

(* C5: in the written sentence, the HEAD column of a word is the rendered  *)
(* position of the word whose id is its stored head id, wherever that word *)
(* stands in the sentence; without such a word it is '0' when the DEPREL   *)
(* column is 'root', else '_'.                                             *)
C5_HeadResolved ==
    phase = "written" =>
    \A n \in 1..Len(out) :
       LET ws == Words(out[n].sent)
           rows == OutRows(out[n])
       IN  /\ Len(rows) = Len(ws)
           /\ \A i \in 1..Len(ws) :
                 LET j == HeadIndex(ws, ws[i])
                 IN  rows[i][7] = IF j # 0 THEN rows[j][1]
                                  ELSE IF rows[i][8] = S_root THEN S_zero
                                  ELSE S_us

\* a head that stands later in the sentence was resolved (forward reference)
C5_Witness ==
    /\ phase = "written"
    /\ \E n \in 1..Len(out) :
          LET ws == Words(out[n].sent)
              rows == OutRows(out[n])
          IN  \E i \in 1..Len(ws) :
                 /\ HeadIndex(ws, ws[i]) > i
                 /\ rows[i][7] = rows[HeadIndex(ws, ws[i])][1]
                 /\ rows[i][7] # S_us

WordRow(cols) == Len(cols) = 10 /\ ~Contains(cols[1], "-")

DepsWellFormed(cols) == cols[9] # S_us => AllHave(Split(cols[9], "|"), ":")

(* C6: a block of well-formed 10-column word rows with distinct ids, read  *)
(* and written back, gives one row per input row, in the order of the      *)
(* input, with the same FORM, LEMMA, UPOS, XPOS and DEPREL.                *)
C6_RoundTrip ==
    phase = "written" =>
    \A s \in 1..Len(input) :
       LET ls == input[s]
       IN  (/\ ls # <<>>
            /\ \A i \in 1..Len(ls) :
                  /\ IsRowLine(ls[i])
                  /\ WordRow(Columns(ls[i]))
                  /\ KvWellFormed(Columns(ls[i]))
                  /\ DepsWellFormed(Columns(ls[i]))
            /\ \A i, j \in 1..Len(ls) :
                  i # j => Columns(ls[i])[1] # Columns(ls[j])[1])
           => \E n \in 1..Len(out) :
                 /\ out[n].sent = <<s, S_sentence>>
                 /\ Len(OutRows(out[n])) = Len(ls)
                 /\ \A i \in 1..Len(ls) :
                       /\ \A col \in {2, 3, 4, 5, 8} :
                             OutRows(out[n])[i][col] = Columns(ls[i])[col]

\* whether word k of ws is an empty word
NullWord(ws, k) ==
    HasFeat(feats, ws[k], "UD", S_null) /\ FeatVal(feats, ws[k], "UD", S_null) = TRUE

\* the number of ordinary words among the first i words
Major(ws, i) == Cardinality({k \in 1..i : ~NullWord(ws, k)})

\* the number of words after the last ordinary word, up to word i
Minor(ws, i) ==
    LET ords == {k \in 1..i : ~NullWord(ws, k)}
    IN  IF ords = {} THEN i
        ELSE i - (CHOOSE k \in ords : \A m \in ords : m <= k)

(* C7: the position column of a written word is major:minor for an empty   *)
(* word and major for any other, where major counts the ordinary words so  *)
(* far in the sentence and minor the empty words since the last ordinary   *)
(* word.                                                                   *)
C7_Positions ==
    phase = "written" =>
    \A n \in 1..Len(out) :
       LET ws == Words(out[n].sent)
           rows == OutRows(out[n])
       IN  /\ Len(rows) = Len(ws)
           /\ \A i \in 1..Len(ws) :
                 rows[i][1] = IF NullWord(ws, i)
                              THEN IntToStr(Major(ws, i)) \o <<":">>
                                   \o IntToStr(Minor(ws, i))
                              ELSE IntToStr(Major(ws, i))

\* the words 1, 1.1, 1.2, 2 were written at 1, 1:1, 1:2, 2
C7_Witness ==
    /\ phase = "written"
    /\ \E n \in 1..Len(out) :
          LET ws == Words(out[n].sent)
              rows == OutRows(out[n])
          IN  /\ Len(ws) = 4
              /\ [i \in 1..4 |-> ws[i][2]]
                    = << <<"1">>, <<"1", ".", "1">>, <<"1", ".", "2">>, <<"2">> >>
              /\ [i \in 1..4 |-> rows[i][1]]
                    = << <<"1">>, <<"1", ":", "1">>, <<"1", ":", "2">>, <<"2">> >>

\* the nodes of a type in the block of the last row, but the last row's own
OtherNodes(typ) ==
    {m \in DOMAIN types : m[1] = last.pre.sid /\ types[m] = typ /\ m # LastNode}

(* C8: at the start of a block the word, token and enhanced-dependency     *)
(* counters are 0; a word row advances the word counter by one and leaves  *)
(* the token counter, a token row the reverse; the row's meta:index is the *)
(* advanced counter, above the index of every other node of its type in    *)
(* the block.                                                              *)
C8_Counters ==
    /\ (phase = "reading" /\ input[sid] = <<>>) =>
          word_idx = 0 /\ token_idx = 0 /\ edep_count = 0
    /\ (LastIsRow /\ Len(LastCols) = 10) =>
          IF Contains(LastCols[1], "-")
          THEN /\ token_idx = last.pre.token_idx + 1
               /\ word_idx = last.pre.word_idx
               /\ MetaIndex(feats, LastNode) = token_idx
               /\ \A m \in OtherNodes("token") :
                     MetaIndex(feats, m) < MetaIndex(feats, LastNode)
          ELSE /\ word_idx = last.pre.word_idx + 1
               /\ token_idx = last.pre.token_idx
               /\ MetaIndex(feats, LastNode) = word_idx
               /\ \A m \in OtherNodes("word") :
                     MetaIndex(feats, m) < MetaIndex(feats, LastNode)

\* a blank line after a block with words and a token: the counters are 0 again
C8_Witness ==
    /\ phase = "reading"
    /\ last.line = <<>>
    /\ last.pre.word_idx >= 2
    /\ last.pre.token_idx >= 1
    /\ input[sid] = <<>>
    /\ word_idx = 0
    /\ token_idx = 0

====
